---- MODULE Spec2Model ----
(***************************************************************************)
(* Model of lab_pg.py: the row resolver and the field update coordinator   *)
(* (update_process, persist_field_change, append_row) over the worksheet   *)
(* "Procesos_Graphy", read through the st.cache_data wrappers              *)
(* fetch_columns and fetch_df.                                             *)
(*                                                                         *)
(* Text is a sequence of one-character strings, so that strip(), lower(),  *)
(* int() and str() are computed and not assumed.                           *)
(***************************************************************************)
EXTENDS Integers, Sequences, FiniteSets, TLC

\* ------------------------------------------------------------------ bounds
MaxRows == 2

MaxClock == 1

MaxEdits == 1

MaxCalls == 1

MaxTries == 2

MaxLabels == 3

MaxCount == 2

\* ------------------------------------------------------------------- text
Digits == <<"0", "1", "2", "3", "4", "5", "6", "7", "8", "9">>

IsDigit(c) == \E i \in 1..10 : Digits[i] = c

DigitVal(c) == (CHOOSE i \in 1..10 : Digits[i] = c) - 1

\* str.lower() on one character of the alphabet used here
LowerChar(c) ==
    CASE c = "N" -> "n"
      [] c = "A" -> "a"
      [] c = "B" -> "b"
      [] OTHER -> c

Lower(s) == [i \in 1..Len(s) |-> LowerChar(s[i])]

RECURSIVE LStrip(_)
LStrip(s) == IF s # <<>> /\ Head(s) = " " THEN LStrip(Tail(s)) ELSE s

RECURSIVE RStrip(_)
RStrip(s) ==
    IF s # <<>> /\ s[Len(s)] = " " THEN RStrip(SubSeq(s, 1, Len(s) - 1)) ELSE s

\* str.strip()
Strip(s) == RStrip(LStrip(s))

RECURSIVE NatStr(_)
NatStr(n) == IF n < 10 THEN <<Digits[n + 1]>> ELSE NatStr(n \div 10) \o <<Digits[(n % 10) + 1]>>

\* str(int)
IntStr(n) == IF n < 0 THEN <<"-">> \o NatStr(0 - n) ELSE NatStr(n)

RECURSIVE DigitsVal(_, _)
DigitsVal(s, acc) ==
    IF s = <<>> THEN acc ELSE DigitsVal(Tail(s), 10 * acc + DigitVal(Head(s)))

AllDigits(s) == s # <<>> /\ \A i \in 1..Len(s) : IsDigit(s[i])

\* the text int() accepts: optional surrounding blanks, optional sign, digits
IntTextBody(s) == IF s # <<>> /\ Head(s) \in {"-", "+"} THEN Tail(s) ELSE s

IsIntText(s) == AllDigits(IntTextBody(Strip(s)))

IntOfText(s) ==
    LET t == Strip(s)
        v == DigitsVal(IntTextBody(t), 0)
    IN IF Head(t) = "-" THEN 0 - v ELSE v

\* ---------------------------------------------------------- Python values
\* t: the Python type; s: text of a str; n: an int, or the truncated part of
\* a float; d: the first fractional digit of a float
None == [t |-> "none", s |-> <<>>, n |-> 0, d |-> 0]

PStr(s) == [t |-> "str", s |-> s, n |-> 0, d |-> 0]

PInt(n) == [t |-> "int", s |-> <<>>, n |-> n, d |-> 0]

PFloat(n, d) == [t |-> "float", s |-> <<>>, n |-> n, d |-> d]

\* float("inf") and float("nan"): a float whose s is its repr
PInfinity == [t |-> "float", s |-> <<"i", "n", "f">>, n |-> 0, d |-> 0]

PNan == [t |-> "float", s |-> <<"n", "a", "n">>, n |-> 0, d |-> 0]

Finite(v) == v.s = <<>>

\* datetime.date(y, m, d): n holds y*10000 + m*100 + d
PDate(y, m, d) == [t |-> "date", s |-> <<>>, n |-> y * 10000 + m * 100 + d, d |-> 0]

\* datetime.time(H, M, S): d holds H*10000 + M*100 + S
PTime(H, M, S) == [t |-> "time", s |-> <<>>, n |-> 0, d |-> H * 10000 + M * 100 + S]

\* datetime.datetime: the date in n, the time of day in d
PDateTime(date, time) == [t |-> "datetime", s |-> <<>>, n |-> date.n, d |-> time.d]

\* n as decimal text of at least w digits, "%02d" and "%04d"
RECURSIVE Pad(_, _)
Pad(text, w) == IF Len(text) >= w THEN text ELSE Pad(<<"0">> \o text, w)

\* date.isoformat() and strftime("%Y-%m-%d") of the date held in n
IsoDate(n) ==
    Pad(NatStr(n \div 10000), 4) \o <<"-">> \o Pad(NatStr((n \div 100) % 100), 2)
    \o <<"-">> \o Pad(NatStr(n % 100), 2)

\* strftime("%H:%M") of the time held in d
HourMinute(d) ==
    Pad(NatStr(d \div 10000), 2) \o <<":">> \o Pad(NatStr((d \div 100) % 100), 2)

\* strftime("%H:%M:%S")
HourMinuteSecond(d) == HourMinute(d) \o <<":">> \o Pad(NatStr(d % 100), 2)

\* str(value)
PyStr(v) ==
    CASE v.t = "none" -> <<"N", "o", "n", "e">>
      [] v.t = "str" -> v.s
      [] v.t = "int" -> IntStr(v.n)
      [] v.t = "float" -> IF Finite(v) THEN IntStr(v.n) \o <<".">> \o NatStr(v.d)
                          ELSE v.s
      [] v.t = "date" -> IsoDate(v.n)
      [] v.t = "datetime" -> IsoDate(v.n) \o <<" ">> \o HourMinuteSecond(v.d)
      [] v.t = "time" -> HourMinuteSecond(v.d)

\* int(value) succeeds (no TypeError / ValueError); a float is a finite one
IntOk(v) ==
    CASE v.t = "none" -> FALSE
      [] v.t = "str" -> IsIntText(v.s)
      [] v.t = "int" -> TRUE
      [] v.t = "float" -> TRUE

\* int(value): a float is truncated towards zero
IntOf(v) == IF v.t = "str" THEN IntOfText(v.s) ELSE v.n

_normalize_cell(value) ==
    LET text == IF value.t = "none" THEN <<>>
                ELSE IF value.t = "str" THEN Strip(value.s) ELSE PyStr(value)
    IN IF Lower(text) = <<"n", "a", "n">> THEN <<>> ELSE text

_prepare_sheet_value_date_first(value) ==
    IF value.t = "none" THEN <<>>
    ELSE IF value.t \in {"date", "datetime"} THEN IsoDate(value.n)
    ELSE IF value.t = "time" THEN HourMinute(value.d)
    ELSE IF value.t = "float" /\ Finite(value) /\ value.d = 0 THEN IntStr(value.n)
    ELSE PyStr(value)

_prepare_sheet_value(value) ==
    IF value.t = "none" THEN <<>>
    ELSE IF value.t = "datetime"
    THEN IsoDate(value.n) \o <<" ">> \o HourMinuteSecond(value.d)
    ELSE IF value.t = "date" THEN IsoDate(value.n)
    ELSE IF value.t = "time" THEN HourMinute(value.d)
    ELSE IF value.t = "float" /\ Finite(value) /\ value.d = 0 THEN IntStr(value.n)
    ELSE PyStr(value)

\* ------------------------------------------------------------- worksheet
\* DEFAULT_COLUMNS, cut down to the columns the resolver and the update
\* coordinator address by name
DEFAULT_COLUMNS == <<"No_orden", "Nombre_paciente", "Status", "Ultima_Modificacion">>

NoRow == 0 - 1

Blank == <<>>

BlankRow(width) == [i \in 1..width |-> Blank]

IsBlankRow(r) == \A i \in 1..Len(r) : r[i] = Blank

RECURSIVE TrimBlankRows(_)
TrimBlankRows(rs) ==
    IF rs # <<>> /\ IsBlankRow(rs[Len(rs)])
    THEN TrimBlankRows(SubSeq(rs, 1, Len(rs) - 1))
    ELSE rs

\* ws.row_values(1)
row_values(st) == st.header

\* ws.get_all_values(): the used range, trailing blank rows are not part of it
get_all_values(st) ==
    LET data == TrimBlankRows(st.rows)
    IN IF st.header = <<>> /\ data = <<>> THEN <<>> ELSE <<st.header>> \o data

\* the DataFrame: cols is values[0], rows is values[1:], index 0..len-1
MkDf(cols, rows) == [cols |-> cols, rows |-> rows]

\* an absent (never computed, expired or cleared) cache entry
NoCols == [valid |-> FALSE, val |-> <<>>]

NoDf == [valid |-> FALSE, val |-> MkDf(<<>>, <<>>)]

Cached(v) == [valid |-> TRUE, val |-> v]

\* st.cache_data.clear()
cache_clear(st) == [st EXCEPT !.cc = NoCols, !.cd = NoDf]

\* @st.cache_data(ttl=30) fetch_columns
fetch_columns(st) ==
    IF st.cc.valid THEN [st |-> st, val |-> st.cc.val]
    ELSE LET headers == row_values(st)
         IN IF headers # <<>>
            THEN [st |-> [st EXCEPT !.cc = Cached(headers)], val |-> headers]
            ELSE [st |-> [st EXCEPT !.header = DEFAULT_COLUMNS,
                                    !.cc = Cached(DEFAULT_COLUMNS)],
                  val |-> DEFAULT_COLUMNS]

ColPos(cols, name) == CHOOSE i \in 1..Len(cols) : cols[i] = name

HasCol(cols, name) == \E i \in 1..Len(cols) : cols[i] = name

\* df[name] at index i (0-based); a required column the sheet lacks reads ""
DfCell(df, i, name) ==
    IF HasCol(df.cols, name) THEN df.rows[i + 1][ColPos(df.cols, name)] ELSE Blank

DfLen(df) == Len(df.rows)

\* @st.cache_data(ttl=30) fetch_df
fetch_df(st) ==
    IF st.cd.valid THEN [st |-> st, val |-> st.cd.val]
    ELSE LET fc == fetch_columns(st)
             values == get_all_values(fc.st)
             df == IF values = <<>> THEN MkDf(fc.val, <<>>)
                   ELSE MkDf(values[1], Tail(values))
         IN [st |-> [fc.st EXCEPT !.cd = Cached(df)], val |-> df]

\* the cell at data row i, column j; outside the used rows it is blank
CellAt(rs, i, j) == IF i <= Len(rs) THEN rs[i][j] ELSE Blank

\* gspread Cell(row, col, value)
Cell(row, col, value) == [row |-> row, col |-> col, value |-> value]

SetCell(rows, width, c) ==
    LET n == IF c.row - 1 > Len(rows) THEN c.row - 1 ELSE Len(rows)
        padded == [i \in 1..n |-> IF i <= Len(rows) THEN rows[i] ELSE BlankRow(width)]
    IN [padded EXCEPT ![c.row - 1][c.col] = c.value]

RECURSIVE SetCells(_, _, _)
SetCells(rows, width, cells) ==
    IF cells = <<>> THEN rows
    ELSE SetCells(SetCell(rows, width, Head(cells)), width, Tail(cells))

update_cells_blank_only(st, updates) ==
    [st EXCEPT !.rows =
        SetCells(st.rows, Len(st.header),
                 SelectSeq(updates, LAMBDA c : CellAt(st.rows, c.row - 1, c.col) = Blank))]

\* ws.update_cells(updates): only the listed cells change, a later cell of
\* the list overrides an earlier one at the same place
update_cells(st, updates) ==
    [st EXCEPT !.rows = SetCells(st.rows, Len(st.header), updates)]

\* ------------------------------------------------------------ identifiers
\* a tuple (items), a dict (items = <<get("No_orden"), get("row_index")>>)
\* or any other value (v)
IdTuple(items) == [k |-> "tuple", items |-> items, v |-> None]

IdDict(no, ri) == [k |-> "dict", items |-> <<no, ri>>, v |-> None]

IdPlain(v) == [k |-> "plain", items |-> <<>>, v |-> v]

\* update_process, the unpacking of the identifier
IdNoOrden(identifier) ==
    IF identifier.k = "tuple"
    THEN IF Len(identifier.items) >= 1 THEN identifier.items[1] ELSE None
    ELSE IF identifier.k = "dict" THEN identifier.items[1]
    ELSE identifier.v

IdRowIdx(identifier) ==
    IF identifier.k = "tuple"
    THEN IF Len(identifier.items) >= 2 THEN identifier.items[2] ELSE None
    ELSE IF identifier.k = "dict" THEN identifier.items[2]
    ELSE None

InIndex_inclusive(df, i) == i >= 0 /\ i <= DfLen(df)

\* row_idx not in df.index
InIndex(df, i) == i >= 0 /\ i < DfLen(df)

\* procesos = df[df["No_orden"].astype(str).str.strip() != ""]
Procesos(df) == {i \in 0..(DfLen(df) - 1) : Strip(DfCell(df, i, "No_orden")) # <<>>}

Matching_trimmed(df, current_no_orden) ==
    {i \in Procesos(df) : Strip(DfCell(df, i, "No_orden")) = current_no_orden}

\* matching = procesos[procesos["No_orden"] == current_no_orden]
Matching(df, current_no_orden) ==
    {i \in Procesos(df) : DfCell(df, i, "No_orden") = current_no_orden}

MinOf(S) == CHOOSE i \in S : \A j \in S : i <= j

ResolveRow_checked(df, identifier) ==
    IF DfLen(df) = 0 THEN NoRow
    ELSE IF IdRowIdx(identifier).t # "none"
    THEN IF IntOk(IdRowIdx(identifier)) /\ InIndex(df, IntOf(IdRowIdx(identifier)))
            /\ DfCell(df, IntOf(IdRowIdx(identifier)), "No_orden")
                  = PyStr(IdNoOrden(identifier))
         THEN IntOf(IdRowIdx(identifier)) ELSE NoRow
    ELSE IF Matching(df, PyStr(IdNoOrden(identifier))) = {} THEN NoRow
    ELSE MinOf(Matching(df, PyStr(IdNoOrden(identifier))))

ResolveRow_fallback(df, identifier) ==
    IF DfLen(df) = 0 THEN NoRow
    ELSE IF IdRowIdx(identifier).t # "none"
    THEN IF IntOk(IdRowIdx(identifier)) /\ InIndex(df, IntOf(IdRowIdx(identifier)))
         THEN IntOf(IdRowIdx(identifier)) ELSE 0
    ELSE IF Matching(df, PyStr(IdNoOrden(identifier))) = {} THEN 0
    ELSE MinOf(Matching(df, PyStr(IdNoOrden(identifier))))

\* update_process up to "row_number = row_idx + 2": the resolved index, or
\* NoRow where the function returns False
ResolveRow(df, identifier) ==
    LET row_idx == IdRowIdx(identifier)
        current_no_orden == PyStr(IdNoOrden(identifier))
    IN IF DfLen(df) = 0 THEN NoRow
       ELSE IF row_idx.t # "none"
       THEN IF ~IntOk(row_idx) THEN NoRow
            ELSE IF ~InIndex(df, IntOf(row_idx)) THEN NoRow
            ELSE IntOf(row_idx)
       ELSE IF Procesos(df) = {} THEN NoRow
       ELSE IF Matching(df, current_no_orden) = {} THEN NoRow
       ELSE MinOf(Matching(df, current_no_orden))

\* datetime.now().strftime("%Y-%m-%d %H:%M:%S"), the clock reading as text
Timestamp(clock) == <<"T">> \o NatStr(clock)

RECURSIVE FieldCells_break(_, _, _)
FieldCells_break(columns, row_number, data_dict) ==
    IF data_dict = <<>> THEN <<>>
    ELSE IF ~HasCol(columns, Head(data_dict).col) THEN <<>>
    ELSE <<Cell(row_number, ColPos(columns, Head(data_dict).col),
                _prepare_sheet_value(Head(data_dict).value))>>
         \o FieldCells_break(columns, row_number, Tail(data_dict))

\* data_dict: a sequence of [col, value], one entry per key, in dict order
RECURSIVE FieldCells(_, _, _)
FieldCells(columns, row_number, data_dict) ==
    IF data_dict = <<>> THEN <<>>
    ELSE LET e == Head(data_dict)
             rest == FieldCells(columns, row_number, Tail(data_dict))
         IN IF ~HasCol(columns, e.col) THEN rest
            ELSE <<Cell(row_number, ColPos(columns, e.col),
                        _prepare_sheet_value(e.value))>> \o rest

\* update_process, the list "updates"
BuildUpdates(columns, row_number, data_dict, clock) ==
    FieldCells(columns, row_number, data_dict)
    \o (IF HasCol(columns, "Ultima_Modificacion")
        THEN <<Cell(row_number, ColPos(columns, "Ultima_Modificacion"),
                    Timestamp(clock))>>
        ELSE <<>>)

RowNumber_skew(row_idx) == row_idx + 3

\* row_number = row_idx + 2  (encabezado +1)
RowNumber(row_idx) == row_idx + 2

\* what update_process leaves: the worksheet and caches, the return value,
\* the resolved row, the cells written and the DataFrame it resolved against
Outcome(st, ret, row_idx, updates, df) ==
    [st |-> st, ret |-> ret, row_idx |-> row_idx, updates |-> updates, df |-> df]

\* update_process from "if not updates" on; storeOk is FALSE when
\* ws.update_cells raises
WriteUpdates(st, row_idx, updates, df, storeOk) ==
    IF updates = <<>> THEN Outcome(st, "False", row_idx, <<>>, df)
    ELSE IF ~storeOk THEN Outcome(st, "raised", row_idx, <<>>, df)
    ELSE Outcome(update_cells(st, updates), "True", row_idx, updates, df)

\* update_process from "columns = fetch_columns()" on, fc being that call
UpdateRow(fc, row_idx, data_dict, df, clock, storeOk) ==
    WriteUpdates(fc.st, row_idx,
                 BuildUpdates(fc.val, RowNumber(row_idx), data_dict, clock),
                 df, storeOk)

\* update_process after "df = fetch_df()", fd being that call
UpdateResolved(fd, row_idx, data_dict, clock, storeOk) ==
    IF row_idx = NoRow THEN Outcome(fd.st, "False", NoRow, <<>>, fd.val)
    ELSE UpdateRow(fetch_columns(fd.st), row_idx, data_dict, fd.val, clock, storeOk)

UpdateFetched(fd, identifier, data_dict, clock, storeOk) ==
    UpdateResolved(fd, ResolveRow(fd.val, identifier), data_dict, clock, storeOk)

\* update_process(identifier, data_dict) run on st at time clock
update_process(st, identifier, data_dict, clock, storeOk) ==
    UpdateFetched(fetch_df(st), identifier, data_dict, clock, storeOk)

\* ------------------------------------------------- persist_field_change
\* the transform= of the widget bound to a field
Transform(field_name, raw_value) ==
    IF field_name = "No_orden"
    THEN PStr(Strip(IF raw_value.t = "str" THEN raw_value.s ELSE <<>>))
    ELSE IF field_name \in {"No_alineadores_superior", "No_alineadores_inferior"}
    THEN (IF raw_value.t = "none" THEN PInt(0) ELSE PInt(IntOf(raw_value)))
    ELSE raw_value

\* _normalize_expander_key
_normalize_expander_key(row_index) ==
    IF row_index.t = "none" THEN None
    ELSE IF IntOk(row_index) THEN PStr(IntStr(IntOf(row_index)))
    ELSE PStr(PyStr(row_index))

\* _focus_sud_tab: the one expander marked open afterwards
_focus_sud_tab(open, row_index) ==
    IF _normalize_expander_key(row_index).t = "none" THEN open
    ELSE _normalize_expander_key(row_index)

RECURSIVE FilterKnown(_, _)
FilterKnown(columns, data) ==
    IF data = <<>> THEN <<>>
    ELSE IF HasCol(columns, Head(data).col)
    THEN <<Head(data)>> \o FilterKnown(columns, Tail(data))
    ELSE FilterKnown(columns, Tail(data))

\* persist_field_change, its last statement: st.cache_data.clear() if
\* update_process returned True; st.error otherwise, and nothing if it raised
AfterUpdate_skip(up) == up.st

AfterUpdate_always(up) == cache_clear(up.st)

AfterUpdate(up) == IF up.ret = "True" THEN cache_clear(up.st) ELSE up.st

\* what persist_field_change leaves, up being the outcome of update_process
Persisted(up, filtered_data) ==
    [st |-> AfterUpdate(up), ret |-> up.ret,
     msg |-> IF up.ret = "False" THEN "error" ELSE "none",
     row_idx |-> up.row_idx, updates |-> up.updates, df |-> up.df,
     data |-> filtered_data]

\* persist_field_change from "filtered_data = ..." on
PersistFiltered(st, identifier, filtered_data, clock, storeOk) ==
    IF filtered_data = <<>>
    THEN [st |-> st, ret |-> "none", msg |-> "warning", row_idx |-> NoRow,
          updates |-> <<>>, df |-> MkDf(<<>>, <<>>), data |-> filtered_data]
    ELSE Persisted(update_process(st, identifier, filtered_data, clock, storeOk),
                   filtered_data)

\* persist_field_change from "columns = fetch_columns()" on, fc being that call
PersistData(fc, identifier, data, clock, storeOk) ==
    PersistFiltered(fc.st, identifier, FilterKnown(fc.val, data), clock, storeOk)

\* persist_field_change(identifier, field_name, key=...) with the widget
\* holding raw_value
persist_field_change(st, identifier, field_name, raw_value, clock, storeOk) ==
    PersistData(fetch_columns(st), identifier,
                <<[col |-> field_name,
                   value |-> PStr(_prepare_sheet_value(Transform(field_name, raw_value)))]>>,
                clock, storeOk)

\* ----------------------------------------------------------- new process
\* the row dict of the submit handler, as the values append_row sends
NewRowValue(c, in_paciente, in_status, clock) ==
    CASE c = "No_orden" -> Blank
      [] c = "Nombre_paciente" -> in_paciente
      [] c = "Status" -> in_status
      [] c = "Ultima_Modificacion" -> Timestamp(clock)
      [] OTHER -> Blank

\* value_input_option="USER_ENTERED": text that reads as a whole number is
\* stored as the number
UserEntered(s) == IF IsIntText(s) THEN IntStr(IntOfText(s)) ELSE s

\* append_row(row): one value per cached column, appended after the last
\* used row
append_row(st, in_paciente, in_status, clock) ==
    LET fc == fetch_columns(st)
        columns == fc.val
        values == [i \in 1..Len(columns) |->
                     UserEntered(NewRowValue(columns[i], in_paciente, in_status, clock))]
    IN [fc.st EXCEPT !.rows = Append(TrimBlankRows(fc.st.rows), values)]

\* ------------------------------------------------------------------ state
VARIABLES
    header,      \* row 1 of the worksheet
    rows,        \* rows 2.. of the worksheet, each as wide as the header
    cacheCols,   \* the st.cache_data entry of fetch_columns
    cacheDf,     \* the st.cache_data entry of fetch_df
    now,         \* the clock datetime.now() reads
    view,        \* per session: identifier[0] of every expander rendered
    focus,       \* per session: the expander key marked open
    op,          \* the operation that ran last
    identifier,  \* its identifier argument
    data_dict,   \* the data_dict update_process was given
    df,          \* the DataFrame its fetch_df call returned
    row_idx,     \* the row update_process resolved, or NoRow
    updates,     \* the cells handed to ws.update_cells
    calls,       \* direct calls of update_process / persist_field_change made
    unread,      \* a write of the application succeeded and fetch_df has not run since
    edits,       \* edits made to the spreadsheet outside the application
    ret,         \* what update_process returned: "True", "False", "raised", "none"
    msg,         \* st.warning / st.error / st.success shown by the handler
    prev,        \* the last call of update_process made in a sequence of calls
    pending,     \* per session: the update request it is in the middle of
    widgets,     \* per session: st.session_state of the two aligner inputs
    args,        \* the arguments a pure function is applied to
    result       \* what it returned

aux == <<prev, pending, widgets, args, result>>

vars == <<header, rows, cacheCols, cacheDf, now, view, focus, op, identifier,
          data_dict, df, row_idx, updates, calls, unread, edits, ret, msg,
          prev, pending, widgets, args, result>>

Sessions == {"s1", "s2"}

St == [header |-> header, rows |-> rows, cc |-> cacheCols, cd |-> cacheDf]

SetSt(st) ==
    /\ header' = st.header
    /\ rows' = st.rows
    /\ cacheCols' = st.cc
    /\ cacheDf' = st.cd

NoId == IdPlain(None)

EmptyDf == MkDf(<<>>, <<>>)

\* what a step that is no update leaves in the call record
NoCall(name) ==
    /\ op' = name
    /\ identifier' = NoId
    /\ data_dict' = <<>>
    /\ row_idx' = NoRow
    /\ updates' = <<>>
    /\ ret' = "none"
    /\ msg' = "none"

\* the SUD tab loop: identifier = (no_orden if no_orden else None, idx)
ViewOf(d) ==
    [i \in 1..DfLen(d) |->
        LET no_orden == _normalize_cell(PStr(DfCell(d, i - 1, "No_orden")))
        IN IF no_orden = <<>> THEN None ELSE PStr(no_orden)]

\* ----------------------------------------------------------------- inputs
\* a worksheet that was set up without the timestamp column
HeaderNoStamp == <<"No_orden", "Nombre_paciente", "Status">>

\* a worksheet whose columns were moved
HeaderMoved == <<"Ultima_Modificacion", "Status", "Nombre_paciente", "No_orden">>

FieldHeaders == {DEFAULT_COLUMNS, HeaderNoStamp, HeaderMoved}

\* a worksheet row with the given order number and patient
MkRow(h, no_orden, paciente) ==
    [i \in 1..Len(h) |->
        IF h[i] = "No_orden" THEN no_orden
        ELSE IF h[i] = "Nombre_paciente" THEN paciente
        ELSE Blank]

SeqsUpTo(S, n) == UNION {[1..k -> S] : k \in 0..n}

UiRows(h) == {MkRow(h, <<"A">>, <<"P">>)}

UiFields == {"No_orden"}

UiRaw(field_name) ==
    IF field_name = "No_orden" THEN {PStr(<<" ", "B">>)} ELSE {PStr(<<"x">>)}

\* no call made yet
NoPrev ==
    [identifier |-> NoId, data_dict |-> <<>>, ret |-> "none", row_idx |-> NoRow,
     updates |-> <<>>, before |-> "none"]

\* a session that is not inside a callback
Idle ==
    [pc |-> "idle", identifier |-> NoId, data_dict |-> <<>>, row_idx |-> NoRow,
     updates |-> <<>>, ret |-> "none", seq |-> 0]

\* a session that has not rendered the aligner inputs yet
NoWidgets == [loaded |-> FALSE, sup |-> None, inf |-> None]

\* ------------------------------------------------------------------- Init
InitState ==
    /\ prev = NoPrev
    /\ pending = [s \in Sessions |-> Idle]
    /\ widgets = [s \in Sessions |-> NoWidgets]
    /\ cacheCols = NoCols
    /\ cacheDf = NoDf
    /\ now = 0
    /\ view = [s \in Sessions |-> <<>>]
    /\ focus = [s \in Sessions |-> None]
    /\ op = "init"
    /\ identifier = NoId
    /\ data_dict = <<>>
    /\ df = EmptyDf
    /\ row_idx = NoRow
    /\ updates = <<>>
    /\ calls = 0
    /\ unread = FALSE
    /\ edits = 0
    /\ ret = "none"
    /\ msg = "none"

InitCommon ==
    /\ InitState
    /\ args = <<>>
    /\ result = <<>>

Init ==
    /\ header \in {DEFAULT_COLUMNS, <<>>}
    /\ rows \in (IF header = <<>> THEN {<<>>} ELSE SeqsUpTo(UiRows(header), MaxRows))
    /\ InitCommon

\* ---------------------------------------------------------------- actions
\* the SUD tab and the listing tab of a script run, fd being fetch_df()
Rendered(s, fd) ==
    /\ SetSt(fd.st)
    /\ df' = fd.val
    /\ view' = [view EXCEPT ![s] = ViewOf(fd.val)]
    /\ unread' = FALSE

\* a script run with nothing submitted: fetch_columns, then the SUD tab and
\* the listing tab read fetch_df and the expanders are rendered
ScriptRun(s) ==
    /\ Rendered(s, fetch_df(fetch_columns(St).st))
    /\ NoCall("fetch_df")
    /\ UNCHANGED <<now, focus, edits, calls, aux>>

\* the call record of an on_change callback, r being what it leaves
Changed(s, id, r) ==
    /\ SetSt(r.st)
    /\ focus' = [focus EXCEPT ![s] = _focus_sud_tab(focus[s], IdRowIdx(id))]
    /\ op' = "persist_field_change"
    /\ identifier' = id
    /\ data_dict' = r.data
    /\ df' = r.df
    /\ row_idx' = r.row_idx
    /\ updates' = r.updates
    /\ ret' = r.ret
    /\ msg' = r.msg
    /\ unread' = IF r.ret = "True" THEN TRUE
                 ELSE IF r.ret = "none" THEN unread ELSE FALSE
    /\ UNCHANGED <<now, view, edits, calls, aux>>

ChangeOf(s, id, field_name, raw_value, storeOk) ==
    Changed(s, id, persist_field_change(St, id, field_name, raw_value, now, storeOk))

\* an on_change callback of an expander of session s
PersistFieldChange(s) ==
    \E i \in 1..Len(view[s]), field_name \in UiFields, storeOk \in BOOLEAN :
      \E raw_value \in UiRaw(field_name) :
        ChangeOf(s, IdTuple(<<view[s][i], PInt(i - 1)>>), field_name, raw_value, storeOk)

\* the submit handler of "form_nuevo" with both names given, fc being the
\* fetch_columns() of the script run
Submitted(fc, in_paciente, in_status) ==
    cache_clear(append_row(fc.st, in_paciente, in_status, now))

Validated_patient_only(in_paciente, in_doctor) == in_paciente # <<>>

\* if enviado and in_paciente and in_doctor
Validated(in_paciente, in_doctor) == in_paciente # <<>> /\ in_doctor # <<>>

\* the two required inputs of the form, as the handler was given them
FormInputs(in_paciente, in_doctor) ==
    <<[col |-> "Nombre_paciente", value |-> PStr(in_paciente)],
      [col |-> "Nombre_doctor", value |-> PStr(in_doctor)]>>

\* the script run of a submitted "form_nuevo"; appendOk is FALSE when
\* ws.append_row raises, which ends the run
NewProcess(s) ==
    \E in_paciente \in {<<>>, <<"P">>}, in_doctor \in {<<>>, <<"D">>}, appendOk \in BOOLEAN :
        /\ Len(rows) < MaxRows
        /\ op' = "new_process"
        /\ identifier' = NoId
        /\ data_dict' = FormInputs(in_paciente, in_doctor)
        /\ row_idx' = NoRow
        /\ updates' = <<>>
        /\ ret' = "none"
        /\ IF Validated(in_paciente, in_doctor)
           THEN IF appendOk
                THEN /\ Rendered(s, fetch_df(Submitted(fetch_columns(St), in_paciente, <<"x">>)))
                     /\ msg' = "success"
                ELSE /\ SetSt(fetch_columns(St).st)
                     /\ msg' = "raised"
                     /\ df' = EmptyDf
                     /\ UNCHANGED <<view, unread>>
           ELSE /\ Rendered(s, fetch_df(fetch_columns(St).st))
                /\ msg' = "validation"
        /\ UNCHANGED <<now, focus, edits, calls, aux>>

\* somebody edits the spreadsheet itself: a row inserted above the data
ExternalInsert ==
    /\ header # <<>>
    /\ Len(rows) < MaxRows
    /\ rows' = <<MkRow(header, <<"C">>, <<"P">>)>> \o rows
    /\ edits < MaxEdits
    /\ edits' = edits + 1
    /\ NoCall("external")
    /\ df' = EmptyDf
    /\ UNCHANGED <<header, cacheCols, cacheDf, now, view, focus, calls, unread, aux>>

\* somebody deletes a row of the spreadsheet
ExternalDelete ==
    \E i \in 1..Len(rows) :
        /\ rows' = SubSeq(rows, 1, i - 1) \o SubSeq(rows, i + 1, Len(rows))
        /\ edits < MaxEdits
        /\ edits' = edits + 1
        /\ NoCall("external")
        /\ df' = EmptyDf
        /\ UNCHANGED <<header, cacheCols, cacheDf, now, view, focus, calls, unread, aux>>

\* ttl=30 runs out for a cache entry
Expire ==
    /\ cacheCols.valid \/ cacheDf.valid
    /\ \E c \in BOOLEAN, d \in BOOLEAN :
        /\ c \/ d
        /\ c => cacheCols.valid
        /\ d => cacheDf.valid
        /\ cacheCols' = IF c THEN NoCols ELSE cacheCols
        /\ cacheDf' = IF d THEN NoDf ELSE cacheDf
    /\ NoCall("expire")
    /\ df' = EmptyDf
    /\ UNCHANGED <<header, rows, now, view, focus, edits, calls, unread, aux>>

\* the clock moves on
Tick ==
    /\ now < MaxClock
    /\ now' = now + 1
    /\ NoCall("tick")
    /\ df' = EmptyDf
    /\ UNCHANGED <<header, rows, cacheCols, cacheDf, view, focus, edits, calls, unread, aux>>

Next ==
    \/ ScriptRun("s1")
    \/ PersistFieldChange("s1")
    \/ NewProcess("s1")
    \/ ExternalInsert
    \/ ExternalDelete
    \/ Expire

Spec == Init /\ [][Next]_vars

\* ------------------------------------------- update_process called directly
\* the call record of a direct call
ApiResult(name, id, data, r) ==
    /\ SetSt(r.st)
    /\ op' = name
    /\ identifier' = id
    /\ data_dict' = data
    /\ df' = r.df
    /\ row_idx' = r.row_idx
    /\ updates' = r.updates
    /\ ret' = r.ret
    /\ calls' = calls + 1
    /\ UNCHANGED <<now, view, focus, edits>>

\* update_process(id, data) called by some code of the application
ApiUpdate(Ids, Datas, Oks) ==
    \E id \in Ids, data \in Datas, storeOk \in Oks :
        /\ calls < MaxCalls
        /\ ApiResult("update_process", id, data,
                     update_process(St, id, data, now, storeOk))
        /\ msg' = "none"
        /\ unread' = unread
        /\ UNCHANGED aux

\* persist_field_change(id, field_name) called with a widget value
ApiPersistResult(id, r) ==
    /\ ApiResult("persist_field_change", id, r.data, r)
    /\ msg' = r.msg
    /\ unread' = IF r.ret = "True" THEN TRUE ELSE IF r.ret = "none" THEN unread ELSE FALSE
    /\ UNCHANGED aux

ApiPersist(Ids, Fields, Raws) ==
    \E id \in Ids, field_name \in Fields, raw_value \in Raws, storeOk \in BOOLEAN :
        /\ calls < MaxCalls
        /\ ApiPersistResult(id, persist_field_change(St, id, field_name, raw_value,
                                                     now, storeOk))

\* ---- row resolution: every shape of identifier against order numbers
ResolveOrders == {<<"A">>, <<" ", "A">>, <<"n", "a", "n">>, <<"N", "a", "N">>, <<" ">>, <<>>}

ResolveRowsOf(h) == {MkRow(h, o, <<"P">>) : o \in ResolveOrders}

Positions ==
    {PInt(i) : i \in (0 - 1)..MaxRows}
    \cup {PStr(<<"1">>), PStr(<<" ", "0", " ">>), PStr(<<"x">>), PStr(<<"1", ".", "5">>),
          PStr(<<>>), PFloat(1, 5), PFloat(0, 0)}

OrderKeys ==
    {None, PInt(1)} \cup {PStr(o) : o \in ResolveOrders}

ResolveIds ==
    {IdTuple(<<None, p>>) : p \in Positions}
    \cup {IdTuple(<<PStr(<<"A">>), PInt(0)>>), IdDict(None, PInt(1)), IdDict(PStr(<<"A">>), None),
          IdTuple(<<PStr(<<"A">>)>>), IdTuple(<<>>)}
    \cup {IdTuple(<<PStr(<<"A">>), PInt(1)>>), IdTuple(<<PStr(<<"Z">>), PInt(0), None>>),
          IdDict(PStr(<<"Z">>), PInt(0)), IdTuple(<<PStr(<<"A">>), PInt(MaxRows)>>)}
    \cup {IdPlain(k) : k \in OrderKeys}

Entry(col, value) == [col |-> col, value |-> value]

ResolveData == {<<Entry("Status", PStr(<<"x">>))>>}

InitResolve ==
    /\ header = DEFAULT_COLUMNS
    /\ rows \in SeqsUpTo(ResolveRowsOf(header), MaxRows)
    /\ InitCommon

NextResolve == ApiUpdate(ResolveIds, ResolveData, {TRUE})

SpecResolve == InitResolve /\ [][NextResolve]_vars

\* ---- field updates: known and unknown fields against several headers
FullRow(h) == [i \in 1..Len(h) |-> <<"v">>]

FieldIds == {IdTuple(<<None, PInt(i)>>) : i \in 0..MaxRows}

FieldData ==
    { <<>>,
      <<Entry("Foo", PStr(<<"x">>))>>,
      <<Entry("Foo", PStr(<<"x">>)), Entry("Bar", PInt(1))>>,
      <<Entry("Status", PStr(<<"x">>))>>,
      <<Entry("Status", PFloat(5, 0))>>,
      <<Entry("Foo", PStr(<<"x">>)), Entry("Status", None)>>,
      <<Entry("Status", PFloat(2, 5)), Entry("Foo", PStr(<<"x">>)), Entry("No_orden", PInt(7))>>,
      <<Entry("Ultima_Modificacion", PStr(<<"u">>)), Entry("Foo", PStr(<<"x">>))>> }

InitFields ==
    /\ header \in FieldHeaders
    /\ rows \in SeqsUpTo({FullRow(header)}, MaxRows)
    /\ InitCommon

NextFields ==
    \/ ApiUpdate(FieldIds, FieldData, BOOLEAN)
    \/ ApiPersist(FieldIds, {"Status", "Foo"}, {PStr(<<" ", "x">>)})
    \/ Tick

SpecFields == InitFields /\ [][NextFields]_vars

\* ----------------------------------------------------------------- claims
\* the worksheet as a full-table read would return it
Live(h, r) == MkDf(h, TrimBlankRows(r))

HasOrder(d, text) == \E i \in 0..(DfLen(d) - 1) : DfCell(d, i, "No_orden") = text

\* C1: after a successful write of the application (update_process returned
\* True inside persist_field_change, or append_row completed) the next
\* fetch_df call returns the worksheet as it is after the write, never a
\* table cached before it.
C1_ReadAfterWriteIsFresh ==
    [][ /\ (op' = "fetch_df" /\ unread) => df' = Live(header', rows')
        /\ (op' = "persist_field_change" /\ ret' # "none" /\ unread)
              => df' = Live(header, rows)
        /\ (op' = "new_process" /\ msg' = "success")
              => (df' = Live(header', rows') /\ DfLen(df') = Len(TrimBlankRows(rows)) + 1)
      ]_vars

\* a read that shows the order number a field change has just written
C1_Witness ==
    /\ op = "fetch_df"
    /\ HasOrder(df, <<"B">>)
    /\ df = Live(header, rows)

\* C2: update_process resolves the row against the worksheet as it is when
\* the call is made, never against an older snapshot.
C2_ResolvesAgainstFreshRead ==
    [][ (op' = "persist_field_change" /\ ret' = "True") => df' = Live(header, rows) ]_vars

\* C10: a write that fails (update_process returned False or raised,
\* append_row raised) leaves the cached table and the cached header as they
\* were.
C10_FailedWriteKeepsCache ==
    [][ ( \/ (op' = "persist_field_change" /\ ret' \in {"False", "raised"})
          \/ (op' = "new_process" /\ msg' = "raised") )
        => /\ cacheDf.valid => cacheDf' = cacheDf
           /\ cacheCols.valid => cacheCols' = cacheCols
      ]_vars

\* a failed field change after which both cache entries are still there
C10_Witness ==
    /\ op = "persist_field_change"
    /\ ret \in {"False", "raised"}
    /\ cacheDf.valid
    /\ cacheCols.valid

\* ---- claims about one update_process call (op = "update_process")
Updated == op = "update_process"

KnownField(col) == HasCol(header, col)

Entries(data) == {data[i] : i \in 1..Len(data)}

Cells(cs) == {cs[i] : i \in 1..Len(cs)}

\* C3: an update whose field names are all unknown is rejected: it returns
\* failure and no cell, the timestamp cell included, is written.
C3_UnknownOnlyRejected ==
    (/\ Updated
     /\ data_dict # <<>>
     /\ \A e \in Entries(data_dict) : ~KnownField(e.col)
     /\ row_idx # NoRow
     /\ ret # "raised")
    => (ret = "False" /\ updates = <<>>)

\* C4: an update with at least one known field returns True (unless the
\* store call raises), hands the store the serialized value of every known
\* field at that field's column of the resolved row, hands it no cell for an
\* unknown field, and the worksheet then holds those values.
C4_KnownWrittenUnknownDropped ==
    (/\ Updated
     /\ row_idx # NoRow
     /\ \E e \in Entries(data_dict) : KnownField(e.col))
    => /\ ret \in {"True", "raised"}
       /\ ret = "True" =>
          /\ \A e \in Entries(data_dict) :
                KnownField(e.col) =>
                  /\ Cell(row_idx + 2, ColPos(header, e.col), _prepare_sheet_value(e.value))
                        \in Cells(updates)
                  /\ e.col # "Ultima_Modificacion" =>
                        rows[row_idx + 1][ColPos(header, e.col)] = _prepare_sheet_value(e.value)
          /\ \A c \in Cells(updates) :
                \/ \E e \in Entries(data_dict) :
                      KnownField(e.col) /\ c.col = ColPos(header, e.col)
                \/ KnownField("Ultima_Modificacion")
                      /\ c.col = ColPos(header, "Ultima_Modificacion")

\* an update of one unknown and two known fields that succeeded
C4_Witness ==
    /\ Updated
    /\ ret = "True"
    /\ Len(data_dict) = 3
    /\ \E e \in Entries(data_dict) : ~KnownField(e.col)
    /\ Len(updates) >= 2

\* C5: with a row position given, the row resolves exactly when int() accepts
\* the position and the result is an index of the snapshot; otherwise
\* update_process returns False; the resolved row is the one at that index.
C5_PositionResolution ==
    (Updated /\ IdRowIdx(identifier).t # "none")
    => /\ (row_idx # NoRow) <=>
             (/\ IntOk(IdRowIdx(identifier))
              /\ \E i \in 1..DfLen(df) : i - 1 = IntOf(IdRowIdx(identifier)))
       /\ row_idx # NoRow => row_idx = IntOf(IdRowIdx(identifier))
       /\ row_idx = NoRow => (ret = "False" /\ updates = <<>>)
       /\ \A c \in Cells(updates) : c.row = IntOf(IdRowIdx(identifier)) + 2

\* a position given as text, converted and found in the snapshot
C5_Witness ==
    /\ Updated
    /\ IdRowIdx(identifier).t = "str"
    /\ row_idx = 1
    /\ ret = "True"

\* the order numbers of the snapshot, by record index
OrderOf(i) == DfCell(df, i, "No_orden")

ByOrder == Updated /\ IdRowIdx(identifier).t = "none"

\* C6 as stated: with no position given, the row resolves iff some row has a
\* non-empty order number that after trimming equals the given value, and the
\* first such row is the one updated.
C6_TrimmedMatch ==
    ByOrder =>
       /\ (row_idx # NoRow) <=>
             \E i \in 0..(DfLen(df) - 1) :
                /\ Strip(OrderOf(i)) # <<>>
                /\ Strip(OrderOf(i)) = PyStr(IdNoOrden(identifier))
       /\ row_idx # NoRow =>
             \A i \in 0..(DfLen(df) - 1) :
                (Strip(OrderOf(i)) # <<>> /\ Strip(OrderOf(i)) = PyStr(IdNoOrden(identifier)))
                   => row_idx <= i

\* C6 amended: with no position given, the row resolves iff some row of the
\* snapshot has an order-number cell that is non-empty after trimming and
\* that, untrimmed, equals str() of the given value; the first such row is
\* the one resolved and written.
C6_ExactMatch ==
    ByOrder =>
       /\ (row_idx # NoRow) <=>
             \E i \in 0..(DfLen(df) - 1) :
                /\ Strip(OrderOf(i)) # <<>>
                /\ OrderOf(i) = PyStr(IdNoOrden(identifier))
       /\ row_idx # NoRow =>
             /\ OrderOf(row_idx) = PyStr(IdNoOrden(identifier))
             /\ \A i \in 0..(DfLen(df) - 1) :
                   OrderOf(i) = PyStr(IdNoOrden(identifier)) => row_idx <= i
             /\ \A c \in Cells(updates) : c.row = row_idx + 2

\* two rows carry the order number asked for and the first one is written
C6_Witness ==
    /\ ByOrder
    /\ ret = "True"
    /\ row_idx = 0
    /\ DfLen(df) = 2
    /\ OrderOf(0) = OrderOf(1)

\* an order number that counts as absent: empty or "nan" once trimmed
Absent(text) == Strip(text) = <<>> \/ Lower(Strip(text)) = <<"n", "a", "n">>

\* C7: an order-number lookup never selects a row whose order number is
\* "", blank, "nan" or "NaN", and a key that is one of these, or None, never
\* resolves.
C7_AbsentOrdersNeverMatch ==
    (ByOrder /\ row_idx # NoRow)
    => /\ ~Absent(OrderOf(row_idx))
       /\ IdNoOrden(identifier).t # "none"
       /\ IdNoOrden(identifier).t = "str" => ~Absent(IdNoOrden(identifier).s)

MaxLen(a, b) == IF Len(a) >= Len(b) THEN Len(a) ELSE Len(b)

\* C8: a successful update of record index r changes no cell but those of
\* sheet row r+2 in the columns of the requested known fields and of
\* Ultima_Modificacion; the header row and every other cell are unchanged.
C8_OnlyTargetCellsChange ==
    [][ (op' \in {"update_process", "persist_field_change"} /\ ret' = "True")
        => /\ header' = header
           /\ \A i \in 1..MaxLen(rows, rows'), j \in 1..Len(header) :
                 CellAt(rows', i, j) # CellAt(rows, i, j)
                 => /\ i = row_idx' + 1
                    /\ \/ header[j] = "Ultima_Modificacion"
                       \/ \E e \in Entries(data_dict') : e.col = header[j]
      ]_vars

\* a second row updated in place, the first row as it was
C8_Witness ==
    /\ Updated
    /\ ret = "True"
    /\ row_idx = 1
    /\ Len(rows) = 2
    /\ rows[1] = FullRow(header)
    /\ rows[2] # FullRow(header)
    /\ \E j \in 1..Len(header) : header[j] = "Nombre_paciente" /\ rows[2][j] = <<"v">>

\* C9: every update that returns True has written the current timestamp to
\* the Ultima_Modificacion column of the row, whatever the header row holds.
C9_SuccessStampsRow ==
    (op \in {"update_process", "persist_field_change"} /\ ret = "True")
    => /\ KnownField("Ultima_Modificacion")
       /\ Cell(row_idx + 2, ColPos(header, "Ultima_Modificacion"), Timestamp(now))
             \in Cells(updates)

\* ------------------------------------------ a sequence of field changes
\* the call record of one call of a sequence, r being what it leaves
SeqResult(id, r) ==
    /\ ApiResult("persist_field_change", id, r.data, r)
    /\ msg' = r.msg
    /\ unread' = unread
    /\ prev' = IF r.ret = "none" THEN prev
               ELSE [identifier |-> id, data_dict |-> r.data, ret |-> r.ret,
                     row_idx |-> r.row_idx, updates |-> r.updates,
                     before |-> prev.ret]
    /\ UNCHANGED <<pending, widgets, args, result>>

\* persist_field_change(id, field_name) called again and again on a
\* worksheet nobody else touches
SeqPersist(Ids, Fields, Raws) ==
    \E id \in Ids, field_name \in Fields, raw_value \in Raws, storeOk \in BOOLEAN :
        /\ calls < MaxTries
        /\ SeqResult(id, persist_field_change(St, id, field_name, raw_value, now, storeOk))

SeqOrders == {<<"A">>, <<>>}

SeqRowsOf(h) == {MkRow(h, o, <<"P">>) : o \in SeqOrders}

SeqIds ==
    {IdTuple(<<None, PInt(0)>>), IdTuple(<<PStr(<<"A">>), PInt(1)>>),
     IdTuple(<<None, PInt(MaxRows)>>), IdTuple(<<None, PStr(<<"x">>)>>),
     IdPlain(PStr(<<"A">>)), IdPlain(PStr(<<"Z">>))}

SeqFields == {"Status", "No_orden"}

SeqRaws == {PStr(<<"B">>)}

InitSeq ==
    /\ header = DEFAULT_COLUMNS
    /\ rows \in SeqsUpTo(SeqRowsOf(header), MaxRows)
    /\ InitCommon

NextSeq ==
    \/ SeqPersist(SeqIds, SeqFields, SeqRaws)
    \/ Tick

SpecSeq == InitSeq /\ [][NextSeq]_vars

\* resolution fails on table d, in the words of the error contract: the
\* table is empty, the row position is invalid, or no row matches the order
\* number
Fails(d, id) ==
    \/ DfLen(d) = 0
    \/ /\ IdRowIdx(id).t # "none"
       /\ ~(IntOk(IdRowIdx(id)) /\ IntOf(IdRowIdx(id)) \in 0..(DfLen(d) - 1))
    \/ /\ IdRowIdx(id).t = "none"
       /\ ~\E i \in 0..(DfLen(d) - 1) :
              /\ Strip(DfCell(d, i, "No_orden")) # <<>>
              /\ DfCell(d, i, "No_orden") = PyStr(IdNoOrden(id))

\* C11: when resolution fails (empty table, invalid position, no row with
\* the order number) update_process returns False and no cell of the
\* worksheet changes; and after such a failure a call whose identifier does
\* resolve on the same table returns True and writes the row.
C11_FailedResolutionIsHarmless ==
    [][ (op' = "persist_field_change" /\ ret' # "none") =>
          /\ Fails(Live(header, rows), identifier') =>
                /\ ret' = "False"
                /\ updates' = <<>>
                /\ rows' = rows
                /\ header' = header
          /\ (/\ prev.ret = "False"
              /\ prev.row_idx = NoRow
              /\ ~Fails(Live(header, rows), identifier')
              /\ ret' # "raised") =>
                /\ ret' = "True"
                /\ row_idx' # NoRow
                /\ \E c \in Cells(updates') : rows'[c.row - 1][c.col] = c.value
      ]_vars

\* a call that returned True right after one that failed to resolve
C11_Witness ==
    /\ op = "persist_field_change"
    /\ ret = "True"
    /\ prev.ret = "True"
    /\ prev.before = "False"
    /\ calls = 2

\* the cells of a batch that are not the timestamp cell
FieldCellsOf(cs) ==
    {c \in Cells(cs) : header[c.col] # "Ultima_Modificacion"}

\* C12: the same update (same identifier, same fields and values) applied a
\* second time to a table nothing else has changed returns True again, sends
\* the same field cells, and leaves every cell but the timestamp as the first
\* application left it.
C12_RepeatedUpdateIdempotent ==
    [][ (/\ op' = "persist_field_change"
         /\ ret' \in {"True", "False"}
         /\ prev.ret = "True"
         /\ identifier' = prev.identifier
         /\ data_dict' = prev.data_dict) =>
          /\ ret' = "True"
          /\ FieldCellsOf(updates') = FieldCellsOf(prev.updates)
          /\ \A i \in 1..MaxLen(rows, rows'), j \in 1..Len(header) :
                header[j] # "Ultima_Modificacion"
                   => CellAt(rows', i, j) = CellAt(rows, i, j)
      ]_vars

\* ------------------------------------------------ _sync_total_alineadores
\* the text float() reads as an infinity, sign aside
IsInfText(t) ==
    Lower(IntTextBody(t)) \in {<<"i", "n", "f">>,
                               <<"i", "n", "f", "i", "n", "i", "t", "y">>}

\* where the decimal point of t is, 0 if it has none
PointAt(t) ==
    IF \E i \in 1..Len(t) : t[i] = "." THEN CHOOSE i \in 1..Len(t) :
                                                /\ t[i] = "."
                                                /\ \A j \in 1..(i - 1) : t[j] # "."
    ELSE 0

WholePart(t) == SubSeq(t, 1, PointAt(t) - 1)

FracPart(t) == SubSeq(t, PointAt(t) + 1, Len(t))

\* the text float() reads as a finite number and int() does not: digits
\* around one decimal point, at least one digit
IsDecimalText(t) ==
    LET b == IntTextBody(t)
    IN /\ PointAt(b) > 0
       /\ WholePart(b) # <<>> \/ FracPart(b) # <<>>
       /\ \A i \in 1..Len(WholePart(b)) : IsDigit(WholePart(b)[i])
       /\ \A i \in 1..Len(FracPart(b)) : IsDigit(FracPart(b)[i])

\* int(float(t)) of such a text: truncation towards zero
DecimalTrunc(t) ==
    LET v == DigitsVal(WholePart(IntTextBody(t)), 0)
    IN IF Head(t) = "-" THEN 0 - v ELSE v

ToIntOk(n) == [raised |-> FALSE, n |-> n]

\* an exception that is neither TypeError nor ValueError leaves _to_int
ToIntRaised == [raised |-> TRUE, n |-> 0]

\* _to_int of the stripped, non-empty text t
ToIntText(t) ==
    IF IsIntText(t) THEN ToIntOk(IntOfText(t))
    ELSE IF IsInfText(t) THEN ToIntRaised
    ELSE IF IsDecimalText(t) THEN ToIntOk(DecimalTrunc(t))
    ELSE ToIntOk(0)

\* _to_int(raw)
_to_int(raw) ==
    CASE raw.t = "none" -> ToIntOk(0)
      [] raw.t = "str" -> IF Strip(raw.s) = <<>> THEN ToIntOk(0)
                          ELSE ToIntText(Strip(raw.s))
      [] raw.t = "int" -> ToIntOk(raw.n)
      [] raw.t = "float" -> IF Finite(raw) THEN ToIntOk(raw.n)
                            ELSE IF raw = PInfinity THEN ToIntRaised
                            ELSE ToIntOk(0)

\* the widget state of a session: st.session_state.get(key, 0)
StateGet(state, key) ==
    IF ~state.loaded THEN PInt(0)
    ELSE IF key = "sup" THEN state.sup ELSE state.inf

SumOf(a, b) ==
    IF a.raised \/ b.raised THEN [raised |-> TRUE, total |-> 0]
    ELSE [raised |-> FALSE, total |-> a.n + b.n]

\* _sync_total_alineadores(sup_value=, inf_value=) in a session whose
\* widget state is state: the total of {"Total_alineadores": total}, or the
\* exception
_sync_total_alineadores(state, sup_value, inf_value) ==
    SumOf(_to_int(IF sup_value.t # "none" THEN sup_value ELSE StateGet(state, "sup")),
          _to_int(IF inf_value.t # "none" THEN inf_value ELSE StateGet(state, "inf")))

\* ---- the total of two counts, for every kind of input
CountInputs ==
    {None, PInt(5), PInt(7), PInt(3), PInt(0),
     PStr(<<"a", "b", "c">>), PStr(<<>>), PStr(<<" ">>), PStr(<<" ", "4", " ">>),
     PStr(<<"-", "2">>), PStr(<<"2", ".", "5">>), PStr(<<"n", "a", "n">>),
     PStr(<<"i", "n", "f">>), PFloat(2, 5), PFloat(6, 0), PNan, PInfinity}

CountStates ==
    {NoWidgets, [loaded |-> TRUE, sup |-> PInt(1), inf |-> PInt(2)]}

InitTotal ==
    /\ header = DEFAULT_COLUMNS
    /\ rows = <<>>
    /\ InitState
    /\ args \in {<<state, sup, inf>> : state \in CountStates, sup \in CountInputs,
                                       inf \in CountInputs}
    /\ result = <<>>

\* what a step that applies a pure function leaves alone
PureStep(name) ==
    /\ NoCall(name)
    /\ UNCHANGED <<header, rows, cacheCols, cacheDf, now, view, focus, df, calls,
                   unread, edits, prev, pending, widgets, args>>

SyncTotal ==
    /\ result = <<>>
    /\ result' = <<_sync_total_alineadores(args[1], args[2], args[3])>>
    /\ PureStep("_sync_total_alineadores")

NextTotal == SyncTotal

SpecTotal == InitTotal /\ [][NextTotal]_vars

\* what an input counts for: its whole number, or zero if it is missing,
\* blank or does not parse
CountsAs(v) ==
    CASE v.t = "int" -> v.n
      [] v.t = "float" /\ Finite(v) -> v.n
      [] v.t = "str" /\ IsIntText(v.s) -> IntOfText(v.s)
      [] v.t = "str" /\ IsDecimalText(Strip(v.s)) -> DecimalTrunc(Strip(v.s))
      [] OTHER -> 0

Applied(name) == op = name /\ result # <<>>

\* the count the total is computed from: the one handed over, else the one
\* the session holds, else none
InputOf(state, value, key) ==
    IF value.t # "none" THEN value
    ELSE IF state.loaded THEN StateGet(state, key) ELSE None

\* C13: for every pair of inputs the total is the sum of what the two count
\* for (zero for a missing, blank or unparseable one) and the computation
\* does not raise.
C13_TotalIsSumNeverRaises ==
    Applied("_sync_total_alineadores")
    => /\ ~result[1].raised
       /\ result[1].total = CountsAs(InputOf(args[1], args[2], "sup"))
                             + CountsAs(InputOf(args[1], args[3], "inf"))

\* ---- serialization, for every kind of value
SomeDates == {PDate(y, m, d) : y \in {1999, 2024}, m \in {1, 3, 12}, d \in {1, 7, 31}}

SomeTimes == {PTime(H, M, S) : H \in {0, 9, 23}, M \in {0, 5, 59}, S \in {0, 30}}

SomeTexts ==
    {<<>>, <<"x">>, <<" ", "x", " ">>, <<"5">>, <<"5", ".", "0">>, <<"n", "a", "n">>,
     <<"N", "o", "n", "e">>, IsoDate(PDate(2024, 3, 7).n), HourMinute(PTime(9, 5, 0).d)}

SheetValues ==
    {None} \cup SomeDates \cup SomeTimes
    \cup {PDateTime(date, time) : date \in {PDate(2024, 3, 7), PDate(1999, 12, 31)},
                                  time \in {PTime(0, 0, 0), PTime(9, 5, 0), PTime(23, 59, 30)}}
    \cup {PFloat(5, 0), PFloat(2, 5), PFloat(0, 0), PFloat(0 - 3, 0), PFloat(12, 0),
          PNan, PInfinity}
    \cup {PInt(0), PInt(12), PInt(0 - 7)}
    \cup {PStr(text) : text \in SomeTexts}

InitValue ==
    /\ header = DEFAULT_COLUMNS
    /\ rows = <<>>
    /\ InitState
    /\ args \in {<<value>> : value \in SheetValues}
    /\ result = <<>>

\* _prepare_sheet_value(value), and again on what it returned, as
\* update_process does with the data persist_field_change hands it
PrepareValue ==
    /\ result = <<>>
    /\ result' = <<_prepare_sheet_value(args[1]),
                   _prepare_sheet_value(PStr(_prepare_sheet_value(args[1])))>>
    /\ PureStep("_prepare_sheet_value")

NextValue == PrepareValue

SpecValue == InitValue /\ [][NextValue]_vars

\* text of w digits that reads as the number n
Reads(text, w, n) == Len(text) = w /\ AllDigits(text) /\ DigitsVal(text, 0) = n

\* text is YYYY-MM-DD of the date held in n
IsDateText(text, n) ==
    /\ Len(text) = 10
    /\ Reads(SubSeq(text, 1, 4), 4, n \div 10000)
    /\ text[5] = "-"
    /\ Reads(SubSeq(text, 6, 7), 2, (n \div 100) % 100)
    /\ text[8] = "-"
    /\ Reads(SubSeq(text, 9, 10), 2, n % 100)

\* text is HH:MM of the time held in d
IsHourMinuteText(text, d) ==
    /\ Len(text) = 5
    /\ Reads(SubSeq(text, 1, 2), 2, d \div 10000)
    /\ text[3] = ":"
    /\ Reads(SubSeq(text, 4, 5), 2, (d \div 100) % 100)

\* C14: None serializes to "", a date to YYYY-MM-DD, a date-time to
\* YYYY-MM-DD HH:MM:SS, a time of day to HH:MM, a float without fractional
\* part to its integer text, anything else to str(value); and serializing
\* the serialized text again returns it unchanged.
C14_SerializationPolicy ==
    Applied("_prepare_sheet_value") =>
       /\ args[1].t = "none" => result[1] = <<>>
       /\ args[1].t = "date" => IsDateText(result[1], args[1].n)
       /\ args[1].t = "datetime" =>
             /\ Len(result[1]) = 19
             /\ IsDateText(SubSeq(result[1], 1, 10), args[1].n)
             /\ result[1][11] = " "
             /\ IsHourMinuteText(SubSeq(result[1], 12, 16), args[1].d)
             /\ result[1][17] = ":"
             /\ Reads(SubSeq(result[1], 18, 19), 2, args[1].d % 100)
       /\ args[1].t = "time" => IsHourMinuteText(result[1], args[1].d)
       /\ (args[1].t = "float" /\ Finite(args[1]) /\ args[1].d = 0)
             => result[1] = IntStr(args[1].n)
       /\ (args[1].t = "float" /\ ~(Finite(args[1]) /\ args[1].d = 0))
             => result[1] = PyStr(args[1])
       /\ args[1].t = "int" => result[1] = IntStr(args[1].n)
       /\ args[1].t = "str" => result[1] = args[1].s
       /\ result[2] = result[1]

\* a date-time at midnight serialized with its time of day
C14_Witness ==
    /\ Applied("_prepare_sheet_value")
    /\ args[1] = PDateTime(PDate(2024, 3, 7), PTime(0, 0, 0))
    /\ Len(result[1]) = 19
    /\ result[2] = result[1]

\* ------------------------------------------------------- _build_options
LowerLetters ==
    {"a", "b", "c", "d", "e", "f", "g", "h", "i", "j", "k", "l", "m", "n", "o",
     "p", "q", "r", "s", "t", "u", "v", "w", "x", "y", "z"}

\* unicodedata.normalize("NFKD", ...) with the combining marks dropped; "e'"
\* stands for the one character e with acute accent
Unaccent(c) == IF c = "e'" THEN "e" ELSE c

\* [a-z0-9]
IsSlugChar(c) == c \in LowerLetters \/ IsDigit(c)

\* re.sub(r"[^a-z0-9]+", "_", text); inRun: the character before was replaced
RECURSIVE SubRuns(_, _)
SubRuns(text, inRun) ==
    IF text = <<>> THEN <<>>
    ELSE IF IsSlugChar(Head(text)) THEN <<Head(text)>> \o SubRuns(Tail(text), FALSE)
    ELSE IF inRun THEN SubRuns(Tail(text), TRUE)
    ELSE <<"_">> \o SubRuns(Tail(text), TRUE)

\* str.strip("_")
RECURSIVE StripUnderscores(_)
StripUnderscores(text) ==
    IF text # <<>> /\ Head(text) = "_" THEN StripUnderscores(Tail(text))
    ELSE IF text # <<>> /\ text[Len(text)] = "_"
    THEN StripUnderscores(SubSeq(text, 1, Len(text) - 1))
    ELSE text

Estado == <<"e", "s", "t", "a", "d", "o">>

_slugify_label(label) ==
    LET ascii_label == StripUnderscores(
                          SubRuns(Lower([i \in 1..Len(label) |-> Unaccent(label[i])]),
                                  FALSE))
    IN IF ascii_label = <<>> THEN Estado ELSE ascii_label

\* f"{base_value}_{suffix}"
Suffixed(base_value, suffix) == base_value \o <<"_">> \o NatStr(suffix)

FreeValue_once(base_value, suffix, seen_values) ==
    IF base_value \in seen_values THEN Suffixed(base_value, 2) ELSE base_value

\* the while loop of _build_options: the value the label gets, suffix being
\* the counter and 1 standing for the bare base_value
RECURSIVE FreeValue(_, _, _)
FreeValue(base_value, suffix, seen_values) ==
    LET value == IF suffix = 1 THEN base_value ELSE Suffixed(base_value, suffix)
    IN IF value \in seen_values THEN FreeValue(base_value, suffix + 1, seen_values)
       ELSE value

Option(value, label) == [value |-> value, label |-> label]

\* the for loop of _build_options over the labels left, options and
\* seen_values being what the labels before produced
RECURSIVE BuildFrom(_, _, _)
BuildFrom(labels, options, seen_values) ==
    IF labels = <<>> THEN options
    ELSE BuildFrom(Tail(labels),
                   Append(options,
                          Option(FreeValue(_slugify_label(Head(labels)), 1, seen_values),
                                 Head(labels))),
                   seen_values
                   \cup {FreeValue(_slugify_label(Head(labels)), 1, seen_values)})

\* _build_options(labels, prefix), the colour of an option left out
_build_options(labels) == BuildFrom(labels, <<>>, {})

\* ---- catalogs of labels, repeated and near-duplicate ones among them
SomeLabels ==
    {<<"a">>, <<"A">>, <<"a", " ", "2">>, <<"-", "a", "_", "2", "-">>, <<>>, <<"e'", "!">>}

InitOptions ==
    /\ header = DEFAULT_COLUMNS
    /\ rows = <<>>
    /\ InitState
    /\ args \in {<<labels>> : labels \in SeqsUpTo(SomeLabels, MaxLabels)}
    /\ result = <<>>

BuildOptions ==
    /\ result = <<>>
    /\ result' = <<_build_options(args[1])>>
    /\ PureStep("_build_options")

NextOptions == BuildOptions

SpecOptions == InitOptions /\ [][NextOptions]_vars

\* C15: _build_options returns one entry per label, in label order, and the
\* identifiers of the entries are pairwise distinct.
C15_OptionValuesDistinct ==
    Applied("_build_options") =>
       /\ Len(result[1]) = Len(args[1])
       /\ \A i \in 1..Len(args[1]) : result[1][i].label = args[1][i]
       /\ \A i \in 1..Len(result[1]), j \in 1..Len(result[1]) :
             i # j => result[1][i].value # result[1][j].value

\* the labels "a", "a", "a 2": the third slug is the second one's
\* identifier and gets a suffix of its own
C15_Witness ==
    /\ Applied("_build_options")
    /\ args[1] = << <<"a">>, <<"a">>, <<"a", " ", "2">> >>
    /\ result[1][1].value = <<"a">>
    /\ result[1][2].value = <<"a", "_", "2">>
    /\ result[1][3].value = <<"a", "_", "2", "_", "2">>

\* --------------------------------- two sessions changing fields of one row
\* persist_field_change up to its ws.update_cells call, r being the callback
\* as it ends when that call raises: "raised" is the callback standing at the
\* call with the batch built
Stopped(r, clock) ==
    [st |-> r.st, ret |-> r.ret, row_idx |-> r.row_idx, data |-> r.data,
     updates |-> IF r.ret = "raised"
                 THEN BuildUpdates(fetch_columns(r.st).val, RowNumber(r.row_idx),
                                   r.data, clock)
                 ELSE <<>>]

\* the widget value of a session, so that the stored value tells the writer
RaceRaw(s) == IF s = "s1" THEN PStr(<<"x">>) ELSE PStr(<<"y">>)

RaceFields == {"Status", "No_orden"}

\* the expander of the first row: identifier = (no_orden, idx)
RaceId == IdTuple(<<PStr(<<"A">>), PInt(0)>>)

\* how many writes have been applied
Applied_writes == Cardinality({s \in Sessions : pending[s].seq > 0})

\* the callback of session s has run up to the store call, b being where it
\* stands
Began(s, b) ==
    /\ SetSt(b.st)
    /\ pending' = [pending EXCEPT ![s] =
                     [pc |-> IF b.ret = "raised" THEN "ready" ELSE "done",
                      identifier |-> RaceId, data_dict |-> b.data,
                      row_idx |-> b.row_idx, updates |-> b.updates,
                      ret |-> IF b.ret = "raised" THEN "none" ELSE b.ret,
                      seq |-> 0]]
    /\ NoCall("callback")
    /\ df' = EmptyDf
    /\ UNCHANGED <<now, view, focus, calls, unread, edits, prev, widgets, args, result>>

\* session s changes a field of the row: the callback reads, resolves and
\* builds its batch
Begin(s) ==
    \E field_name \in RaceFields :
        /\ pending[s].pc = "idle"
        /\ Began(s, Stopped(persist_field_change(St, RaceId, field_name, RaceRaw(s),
                                                 now, FALSE), now))

\* the store call of session s and the rest of its callback, up being what
\* update_process leaves
Committed(s, up) ==
    /\ SetSt(AfterUpdate(up))
    /\ pending' = [pending EXCEPT ![s].pc = "done", ![s].ret = up.ret,
                                  ![s].seq = IF up.ret = "True" THEN Applied_writes + 1
                                             ELSE 0]
    /\ op' = "persist_field_change"
    /\ identifier' = pending[s].identifier
    /\ data_dict' = pending[s].data_dict
    /\ row_idx' = pending[s].row_idx
    /\ updates' = up.updates
    /\ ret' = up.ret
    /\ msg' = "none"
    /\ df' = EmptyDf
    /\ UNCHANGED <<now, view, focus, calls, unread, edits, prev, widgets, args, result>>

Commit(s) ==
    \E storeOk \in BOOLEAN :
        /\ pending[s].pc = "ready"
        /\ Committed(s, WriteUpdates(St, pending[s].row_idx, pending[s].updates,
                                     EmptyDf, storeOk))

InitRace ==
    /\ header = DEFAULT_COLUMNS
    /\ rows \in {r \in SeqsUpTo(UiRows(header), MaxRows) : r # <<>>}
    /\ InitCommon

NextRace ==
    \/ \E s \in Sessions : Begin(s)
    \/ \E s \in Sessions : Commit(s)
    \/ Tick

SpecRace == InitRace /\ [][NextRace]_vars

\* the session whose write was applied last
LastWriter == CHOOSE s \in Sessions : \A o \in Sessions : pending[o].seq <= pending[s].seq

Wrote(s, j) == \E c \in Cells(pending[s].updates) : c.col = j

\* C16: two sessions changing fields of the same row are not coordinated: a
\* request that has built its batch can always go on to its store call, no
\* request is rejected, and once both writes are applied every column both
\* wrote holds the value of the write applied last.
C16_LastWriterWins ==
    /\ \A s \in Sessions : pending[s].pc = "ready" => ENABLED Commit(s)
    /\ \A s \in Sessions : pending[s].pc = "done" => pending[s].ret \in {"True", "raised"}
    /\ (\A s \in Sessions : pending[s].pc = "done" /\ pending[s].ret = "True") =>
          \A j \in 1..Len(header) :
             (\A s \in Sessions : Wrote(s, j)) =>
                Cell(2, j, rows[1][j]) \in Cells(pending[LastWriter].updates)

\* both changed Status; s1 built its batch first (older timestamp) and its
\* write was applied last, so its value and its timestamp are the ones stored
C16_Witness ==
    /\ \A s \in Sessions : pending[s].pc = "done" /\ pending[s].ret = "True"
    /\ pending["s1"].seq = 2
    /\ \A s \in Sessions : Wrote(s, ColPos(header, "Status"))
    /\ rows[1][ColPos(header, "Status")] = <<"x">>
    /\ rows[1][ColPos(header, "Ultima_Modificacion")] = Timestamp(0)
    /\ Cell(2, ColPos(header, "Ultima_Modificacion"), Timestamp(1))
          \in Cells(pending["s2"].updates)

\* ---- the new-process form
Submission == op' = "new_process"

\* C17: a submission with an empty patient name or an empty doctor name
\* gets the validation error and nothing else happens: no row is appended,
\* no data cell changes, no cache entry is dropped (the header row is only
\* written if it was empty, as on any script run). A submission with both
\* names whose append does not raise adds exactly one row after the used
\* rows, holding the patient name, and leaves the rows before it alone.
C17_ValidationBeforeWrite ==
    [][ Submission =>
          /\ (data_dict'[1].value.s = <<>> \/ data_dict'[2].value.s = <<>>) =>
                /\ msg' = "validation"
                /\ rows' = rows
                /\ header # <<>> => header' = header
                /\ cacheDf.valid => cacheDf' = cacheDf
                /\ cacheCols.valid => cacheCols' = cacheCols
          /\ (data_dict'[1].value.s # <<>> /\ data_dict'[2].value.s # <<>>
              /\ msg' # "raised") =>
                /\ msg' = "success"
                /\ Len(rows') = Len(TrimBlankRows(rows)) + 1
                /\ SubSeq(rows', 1, Len(rows') - 1) = TrimBlankRows(rows)
                /\ rows'[Len(rows')][ColPos(header', "Nombre_paciente")]
                      = data_dict'[1].value.s
      ]_vars

\* a submission without the doctor name, rejected with the table cached
C17_Witness ==
    /\ op = "new_process"
    /\ msg = "validation"
    /\ data_dict[1].value.s # <<>>
    /\ data_dict[2].value.s = <<>>
    /\ rows # <<>>
    /\ cacheDf.valid
    /\ DfLen(cacheDf.val) = Len(rows)

\* ------------------------------------------------- the aligner counts
\* a worksheet with the three aligner columns
AlignerHeader ==
    <<"No_orden", "No_alineadores_superior", "No_alineadores_inferior",
      "Total_alineadores", "Ultima_Modificacion">>

\* _parse_int(value) of the SUD tab, for the text of a cell
_parse_int(text) ==
    IF Strip(text) = <<>> \/ Lower(Strip(text)) = <<"n", "a", "n">> THEN 0
    ELSE IF IsIntText(Strip(text)) THEN IntOfText(Strip(text))
    ELSE IF IsDecimalText(Strip(text)) THEN DecimalTrunc(Strip(text))
    ELSE 0

\* persist_field_change with extra_resolver=_sync_total_alineadores, total
\* being what the resolver returned: data.update({"Total_alineadores": ...})
PersistWithTotal(st, id, field_name, value, total, clock, storeOk) ==
    IF total.raised
    THEN [st |-> st, ret |-> "none", msg |-> "error", row_idx |-> NoRow,
          updates |-> <<>>, df |-> MkDf(<<>>, <<>>), data |-> <<>>]
    ELSE PersistData(fetch_columns(st), id,
                     <<[col |-> field_name, value |-> PStr(_prepare_sheet_value(value))],
                       [col |-> "Total_alineadores",
                        value |-> PStr(_prepare_sheet_value(PInt(total.total)))]>>,
                     clock, storeOk)

\* the on_change callback of the no_sup input (which = "sup") or of the
\* no_inf input, in a session whose widget state is state: the resolver is
\* given the changed value and reads the other count from the session
AlignerChange(st, id, which, state, clock, storeOk) ==
    IF which = "sup"
    THEN PersistWithTotal(st, id, "No_alineadores_superior",
                          Transform("No_alineadores_superior", state.sup),
                          _sync_total_alineadores(
                              state, Transform("No_alineadores_superior", state.sup), None),
                          clock, storeOk)
    ELSE PersistWithTotal(st, id, "No_alineadores_inferior",
                          Transform("No_alineadores_inferior", state.inf),
                          _sync_total_alineadores(
                              state, None, Transform("No_alineadores_inferior", state.inf)),
                          clock, storeOk)

\* the expander of the first row
AlignerId == IdTuple(<<PStr(<<"A">>), PInt(0)>>)

\* the two number inputs as a script run creates them from row 0 of d
WidgetsOf(d) ==
    [loaded |-> TRUE,
     sup |-> PInt(_parse_int(DfCell(d, 0, "No_alineadores_superior"))),
     inf |-> PInt(_parse_int(DfCell(d, 0, "No_alineadores_inferior")))]

Loaded(s, fd) ==
    /\ Rendered(s, fd)
    /\ widgets' = [widgets EXCEPT ![s] = WidgetsOf(fd.val)]
    /\ NoCall("fetch_df")
    /\ UNCHANGED <<now, focus, edits, calls, prev, pending, args, result>>

\* the first script run of session s: the inputs get their values from the
\* table; afterwards the session keeps them under their keys
Load(s) ==
    /\ ~widgets[s].loaded
    /\ Loaded(s, fetch_df(fetch_columns(St).st))

\* the user has set an input to a new count
Typed(state, which, n) ==
    IF which = "sup" THEN [state EXCEPT !.sup = PInt(n)]
    ELSE [state EXCEPT !.inf = PInt(n)]

\* the call record of the callback, state being the session's widget state
\* with the new count and r what the callback leaves
CountChanged(s, state, r) ==
    /\ SetSt(r.st)
    /\ widgets' = [widgets EXCEPT ![s] = state]
    /\ focus' = [focus EXCEPT ![s] = _focus_sud_tab(focus[s], IdRowIdx(AlignerId))]
    /\ op' = "persist_field_change"
    /\ identifier' = AlignerId
    /\ data_dict' = r.data
    /\ df' = r.df
    /\ row_idx' = r.row_idx
    /\ updates' = r.updates
    /\ ret' = r.ret
    /\ msg' = r.msg
    /\ unread' = (r.ret = "True")
    /\ UNCHANGED <<now, view, edits, calls, prev, pending, args, result>>

CountTyped(s, which, state) ==
    CountChanged(s, state, AlignerChange(St, AlignerId, which, state, now, TRUE))

\* the user of session s sets one of the two inputs to another count and
\* the on_change callback runs; the store accepts the write
EditCount(s) ==
    \E which \in {"sup", "inf"}, n \in 0..MaxCount :
        /\ widgets[s].loaded
        /\ Typed(widgets[s], which, n) # widgets[s]
        /\ CountTyped(s, which, Typed(widgets[s], which, n))

InitAligners ==
    /\ header = AlignerHeader
    /\ rows = <<MkRow(header, <<"A">>, <<"P">>)>>
    /\ InitCommon

NextAligners ==
    \/ \E s \in Sessions : Load(s)
    \/ \E s \in Sessions : EditCount(s)

SpecAligners == InitAligners /\ [][NextAligners]_vars

StoredCount(name) == _parse_int(rows[1][ColPos(header, name)])

\* C19: whatever edits of the two counts the sessions have made, the stored
\* Total_alineadores of the row is the sum of its stored
\* No_alineadores_superior and No_alineadores_inferior.
C19_StoredTotalIsSum ==
    StoredCount("Total_alineadores")
       = StoredCount("No_alineadores_superior") + StoredCount("No_alineadores_inferior")

\* ---- the header row after first use
\* C18: once fetch_columns has run, the header row of the worksheet holds
\* every name of DEFAULT_COLUMNS, whether it was empty or lacked a column.
C18_HeaderInitialized ==
    cacheCols.valid => \A i \in 1..Len(DEFAULT_COLUMNS) : HasCol(header, DEFAULT_COLUMNS[i])

\* ---- identifiers that carry an order number and a position
Both == Updated /\ IdRowIdx(identifier).t # "none" /\ IdNoOrden(identifier).t # "none"

\* C20: an identifier with an order number and a row position resolves by
\* the position alone: to the row at that index if int() accepts it and it
\* is an index of the snapshot, whatever order number that row stores, and
\* to nothing otherwise, even if a row with the order number exists; the row
\* at the position is the one written.
C20_PositionAlone ==
    Both =>
       /\ row_idx = (IF IntOk(IdRowIdx(identifier))
                        /\ IntOf(IdRowIdx(identifier)) \in 0..(DfLen(df) - 1)
                     THEN IntOf(IdRowIdx(identifier)) ELSE NoRow)
       /\ row_idx # NoRow =>
             /\ ret = "True"
             /\ \A c \in Cells(updates) : c.row = row_idx + 2
             /\ rows[row_idx + 1][ColPos(header, "Status")] = <<"x">>
             /\ rows[row_idx + 1][ColPos(header, "No_orden")] = OrderOf(row_idx)
       /\ row_idx = NoRow => (ret = "False" /\ updates = <<>>)

\* a row updated through its position although it stores another order
\* number than the identifier carries
C20_Witness ==
    /\ Both
    /\ ret = "True"
    /\ row_idx = 0
    /\ IdNoOrden(identifier) = PStr(<<"Z">>)
    /\ OrderOf(0) = <<"A">>
    /\ rows[1][ColPos(header, "Status")] = <<"x">>

====
